---- MODULE Spec2Model ----
(***************************************************************************)
(* StageLinq client library: the device connection orchestrator            *)
(* (src/network/StageLinqDevices.ts) and the BeatInfo change-detection     *)
(* filter (src/services/BeatInfo.ts).                                      *)
(*                                                                         *)
(* JavaScript runs every handler to completion up to its next `await`, so  *)
(* one action is one synchronous run of a handler: from its call, or from  *)
(* the resumption of an `await`, to the next `await`, return or throw.     *)
(***************************************************************************)
EXTENDS Integers, Sequences, FiniteSets, TLC

(***************************************************************************)
(* Bounds of the model.                                                    *)
(***************************************************************************)
\* options.maxRetries ranges over 0 .. MaxRetriesBound
MaxRetriesBound == 3

(***************************************************************************)
(* ConnectionInfo {address, port, token, source, software: {name}}.        *)
(***************************************************************************)
CI(address, port, token, source, name) ==
  [address |-> address, port |-> port, token |-> token, source |-> source,
   software |-> [name |-> name]]

\* options.actingAs.source of this process
ActingAsSource == "np2"

Base == CI("10.0.0.1", 50000, "t1", "sc6000", "JC11")
\* the same device announced with another token
TokenVariant == CI("10.0.0.1", 50000, "t2", "sc6000", "JC11")
\* the same token on another port (the device rebooted)
PortVariant == CI("10.0.0.1", 50001, "t1", "sc6000", "JC11")
AddressVariant == CI("10.0.0.2", 50000, "t1", "sc6000", "JC11")
SourceVariant == CI("10.0.0.1", 50000, "t1", "prime4", "JC11")
NameVariant == CI("10.0.0.1", 50000, "t1", "sc6000", "JP07")

\* announcements the ignore policy is about
PolicyAnnouncements ==
  { CI("10.0.0.3", 50000, "t3", "sc6000", "OfflineAnalyzer"),
    CI("10.0.0.3", 50000, "t3", "sc6000", "JM08"),
    CI("10.0.0.3", 50000, "t3", "sc6000", "SSS0"),
    CI("10.0.0.3", 50000, "t3", "sc6000", "SoundSwitchXYZ"),
    CI("10.0.0.3", 50000, "t3", "sc6000", "soundswitch"),
    CI("10.0.0.3", 50000, "t3", "sc6000", "ResolumeArena"),
    CI("10.0.0.3", 50000, "t3", "sc6000", "RESOLUME"),
    CI("10.0.0.1", 50000, "t1", ActingAsSource, "JC11") }

\* the networks a run is played on: the announcements discovery delivers
Networks ==
  { {Base, TokenVariant, PortVariant},
    {Base, AddressVariant},
    {Base, SourceVariant},
    {Base, NameVariant},
    {Base} \cup PolicyAnnouncements }

Announcements == UNION Networks

VARIABLES
  network,          \* the announcements discovery delivers in this run
  options,          \* StageLinqOptions given to the constructor
  discoveryStatus,  \* Map<string, ConnectionStatus>
  devices,          \* Map<IpAddress, StageLinqDevice>
  sockets,          \* NetworkDevices whose connect() succeeded, not disconnected
  calls,            \* the handleDevice calls that passed the guard, in call order
  events,           \* events emitted by the orchestrator, in order
  last,             \* the most recent handleDevice call: argument and outcome
  userBeatCallback, \* BeatInfo._userBeatCallback: <<>> is null
  userBeatOptions,  \* BeatInfo._userBeatOptions: <<>> is null
  currentBeatData,  \* BeatInfo._currentBeatData: <<>> is null
  lastBeat,         \* the most recent messageHandler call: argument and outcome
  timers,           \* the sleep(500) timers of handleDevice that have not fired
  disconnected,     \* disconnectAll ran and no socket has connected since
  lastDownload,     \* the most recent downloadFile call: argument and outcome
  frame,            \* a beat-info frame: the values it was built from and its bytes
  parsed,           \* the outcome of parseData on the frame, <<>> before the call
  registry,         \* Devices._devices: deviceId string -> Device
  getCalls,         \* the getDevice calls made so far
  updateCalls,      \* the updateDeviceInfo calls, in the order they were made
  created           \* per DeviceId string, the number of Devices addDevice has made

orchVars == <<network, options, discoveryStatus, devices, sockets, calls, events, last>>
beatVars == <<userBeatCallback, userBeatOptions, currentBeatData, lastBeat>>
opsVars == <<timers, disconnected, lastDownload>>
parseVars == <<frame, parsed>>
regVars == <<registry, getCalls, updateCalls, created>>
svcVars == <<parseVars, regVars>>
vars == <<orchVars, beatVars, opsVars, svcVars>>

(***************************************************************************)
(* Pure helpers of StageLinqDevices.                                       *)
(***************************************************************************)
UpperChars == "ABCDEFGHIJKLMNOPQRSTUVWXYZ"
LowerChars == "abcdefghijklmnopqrstuvwxyz"

\* the case folding the /i flag applies to one character
FoldChar(c) ==
  IF \E i \in 1..Len(UpperChars) : SubSeq(UpperChars, i, i) = c
  THEN LET i == CHOOSE j \in 1..Len(UpperChars) : SubSeq(UpperChars, j, j) = c
       IN  SubSeq(LowerChars, i, i)
  ELSE c

RECURSIVE Fold(_)
Fold(s) ==
  IF Len(s) = 0 THEN ""
  ELSE FoldChar(SubSeq(s, 1, 1)) \o Fold(SubSeq(s, 2, Len(s)))

\* /^prefix/i.test(s)
TestPrefixI(prefix, s) ==
  /\ Len(s) >= Len(prefix)
  /\ Fold(SubSeq(s, 1, Len(prefix))) = Fold(prefix)

\* /^prefix/.test(s): the same test without the i flag
TestPrefix(prefix, s) ==
  /\ Len(s) >= Len(prefix)
  /\ SubSeq(s, 1, Len(prefix)) = prefix

deviceId_Token(device) ==
  device.address \o ":" \o device.token \o ":" \o
  "[" \o device.source \o "/" \o device.software.name \o "]"

deviceId(device) ==
  device.address \o ":" \o ToString(device.port) \o ":" \o
  "[" \o device.source \o "/" \o device.software.name \o "]"

\* deviceId of every announcement, computed once
DeviceIdOf == [ci \in Announcements |-> deviceId(ci)]

\* Map.get: undefined for an absent key
MapGet(map, key) == IF key \in DOMAIN map THEN map[key] ELSE "undefined"

\* Map.get of a map of objects: <<object>>, or <<>> for undefined
RegGet(devs, key) == IF key \in DOMAIN devs THEN <<devs[key]>> ELSE <<>>

\* Map.set
MapSet(map, key, value) ==
  [k \in DOMAIN map \cup {key} |-> IF k = key THEN value ELSE map[k]]

isConnecting_Never(ds, device) == FALSE

isConnecting(ds, device) == MapGet(ds, DeviceIdOf[device]) = "CONNECTING"

isConnected_Never(ds, device) == FALSE

isConnected(ds, device) == MapGet(ds, DeviceIdOf[device]) = "CONNECTED"

isFailed(ds, device) == MapGet(ds, DeviceIdOf[device]) = "FAILED"

isIgnored_CaseSensitive(opts, device) ==
  \/ device.source = opts.actingAs.source
  \/ device.software.name = "OfflineAnalyzer"
  \/ TestPrefix("SoundSwitch", device.software.name)
  \/ TestPrefix("Resolume", device.software.name)
  \/ device.software.name = "JM08"
  \/ device.software.name = "SSS0"

isIgnored(opts, device) ==
  \/ device.source = opts.actingAs.source
  \/ device.software.name = "OfflineAnalyzer"
  \/ TestPrefixI("SoundSwitch", device.software.name)
  \/ TestPrefixI("Resolume", device.software.name)
  \/ device.software.name = "JM08"
  \/ device.software.name = "SSS0"

\* isIgnored of every announcement under the options of this process, computed once
IgnoredOf ==
  [ci \in Announcements |-> isIgnored([actingAs |-> [source |-> ActingAsSource]], ci)]

Skips_WithoutFailed(ds, device) ==
  \/ isConnected(ds, device)
  \/ isConnecting(ds, device)
  \/ IgnoredOf[device]

\* the guard of handleDevice: the announcement is not acted on
Skips(ds, device) ==
  \/ isConnected(ds, device)
  \/ isConnecting(ds, device)
  \/ isFailed(ds, device)
  \/ IgnoredOf[device]

LoopCond_Inclusive(attempt, maxRetries) == attempt <= maxRetries

\* the condition of the retry loop
LoopCond(attempt, maxRetries) == attempt < maxRetries

(***************************************************************************)
(* State after construction.                                               *)
(***************************************************************************)
NoCall == [ci |-> CI("", 0, "", "", ""), before |-> "none", proceeded |-> FALSE,
           disconnected |-> FALSE]

NoDownload == [called |-> FALSE, address |-> "", entry |-> <<>>, threw |-> FALSE,
               service |-> <<>>]

OpsInit ==
  /\ timers = {}
  /\ disconnected = FALSE
  /\ lastDownload = NoDownload

\* no frame has been received and the registry is empty
NoFrame == [id |-> 0, clock |-> 0, player |-> <<>>, bytes |-> <<>>]

ParseInit ==
  /\ frame = NoFrame
  /\ parsed = <<>>

RegInit ==
  /\ registry = <<>>
  /\ getCalls = <<>>
  /\ updateCalls = <<>>
  /\ created = <<>>

SvcInit == ParseInit /\ RegInit

NoBeat == [handled |-> FALSE, data |-> <<>>, prev |-> <<>>, everyNBeats |-> 0,
           callbacks |-> 0,
           threw |-> FALSE]

BeatInit ==
  /\ userBeatCallback = <<>>
  /\ userBeatOptions = <<>>
  /\ currentBeatData = <<>>
  /\ lastBeat = NoBeat

Init ==
  /\ BeatInit
  /\ OpsInit
  /\ SvcInit
  /\ network \in Networks
  /\ options \in [maxRetries : 0..MaxRetriesBound,
                  downloadDbSources : BOOLEAN,
                  actingAs : {[source |-> ActingAsSource]}]
  /\ discoveryStatus = <<>>
  /\ devices = <<>>
  /\ sockets = {}
  /\ calls = <<>>
  /\ events = <<>>
  /\ last = NoCall

\* a handler is in the middle of a synchronous run
Running == \E i \in 1..Len(calls) : calls[i].pc = "loop"

\* the NetworkDevice created by attempt `attempt` of call i
Nd(i, attempt) == <<i, attempt>>

SetCall(i, pc, attempt, connects) ==
  [calls EXCEPT ![i] = [ci |-> calls[i].ci, pc |-> pc, attempt |-> attempt,
                        connects |-> connects]]

\* a handleDevice that waits for the calls before it to end
HandleDevice_Serial(ci) ==
  /\ ~Running
  /\ \A i \in 1..Len(calls) : calls[i].pc \in {"returned", "threw"}
  /\ last' = [ci |-> ci, before |-> MapGet(discoveryStatus, DeviceIdOf[ci]),
              proceeded |-> ~Skips(discoveryStatus, ci),
              disconnected |-> disconnected]
  /\ IF Skips(discoveryStatus, ci)
     THEN UNCHANGED <<discoveryStatus, calls>>
     ELSE /\ discoveryStatus' = MapSet(discoveryStatus, DeviceIdOf[ci], "CONNECTING")
          /\ calls' = Append(calls, [ci |-> ci, pc |-> "loop", attempt |-> 1,
                                     connects |-> 0])
  /\ UNCHANGED <<network, options, devices, sockets, events, beatVars, svcVars, opsVars>>

(***************************************************************************)
(* handleDevice(connectionInfo): the guard, and the mark CONNECTING.       *)
(***************************************************************************)
HandleDevice(ci) ==
  /\ ~Running
  /\ last' = [ci |-> ci, before |-> MapGet(discoveryStatus, DeviceIdOf[ci]),
              proceeded |-> ~Skips(discoveryStatus, ci),
              disconnected |-> disconnected]
  /\ IF Skips(discoveryStatus, ci)
     THEN UNCHANGED <<discoveryStatus, calls>>
     ELSE /\ discoveryStatus' = MapSet(discoveryStatus, DeviceIdOf[ci], "CONNECTING")
          /\ calls' = Append(calls, [ci |-> ci, pc |-> "loop", attempt |-> 1,
                                     connects |-> 0])
  /\ UNCHANGED <<network, options, devices, sockets, events, beatVars, svcVars, opsVars>>

\* a loop head that throws without the mark FAILED
LoopHead_NoFailedMark(i) ==
  /\ calls[i].pc = "loop"
  /\ IF LoopCond(calls[i].attempt, options.maxRetries)
     THEN /\ calls' = SetCall(i, "connect", calls[i].attempt, calls[i].connects + 1)
          /\ UNCHANGED discoveryStatus
     ELSE /\ UNCHANGED discoveryStatus
          /\ calls' = SetCall(i, "threw", calls[i].attempt, calls[i].connects)
  /\ UNCHANGED <<beatVars, svcVars, opsVars, network, options, devices, sockets, events, last>>

(***************************************************************************)
(* The head of the retry loop: either the next connectToPlayer call, which *)
(* runs up to `await networkDevice.connect()`, or the mark FAILED and the  *)
(* throw.                                                                  *)
(***************************************************************************)
LoopHead(i) ==
  /\ calls[i].pc = "loop"
  /\ IF LoopCond(calls[i].attempt, options.maxRetries)
     THEN /\ calls' = SetCall(i, "connect", calls[i].attempt, calls[i].connects + 1)
          /\ UNCHANGED discoveryStatus
     ELSE /\ discoveryStatus' =
               MapSet(discoveryStatus, DeviceIdOf[calls[i].ci], "FAILED")
          /\ calls' = SetCall(i, "threw", calls[i].attempt, calls[i].connects)
  /\ UNCHANGED <<beatVars, svcVars, opsVars, network, options, devices, sockets, events, last>>

(***************************************************************************)
(* connectToPlayer, one action per resumed await.                          *)
(***************************************************************************)
\* networkDevice.connect() resolved; connectToService(FileTransfer) is awaited
SocketConnected(i) ==
  /\ ~Running
  /\ calls[i].pc = "connect"
  /\ sockets' = sockets \cup {Nd(i, calls[i].attempt)}
  /\ calls' = SetCall(i, "fileTransfer", calls[i].attempt, calls[i].connects)
  /\ disconnected' = FALSE
  /\ UNCHANGED <<beatVars, svcVars, timers, lastDownload, network, options, discoveryStatus,
                 devices, events, last>>

\* connectToService(FileTransfer) resolved: the device is tracked by address
FileTransferConnected(i) ==
  /\ ~Running
  /\ calls[i].pc = "fileTransfer"
  /\ devices' = MapSet(devices, calls[i].ci.address,
                       [networkDevice |-> Nd(i, calls[i].attempt),
                        fileTransferService |-> Nd(i, calls[i].attempt)])
  /\ calls' = SetCall(i, IF options.downloadDbSources THEN "dbSources" ELSE "stateMap",
                      calls[i].attempt, calls[i].connects)
  /\ UNCHANGED <<beatVars, svcVars, opsVars, network, options, discoveryStatus, sockets, events, last>>

\* databases.downloadSourcesFromDevice resolved
DbSourcesDownloaded(i) ==
  /\ ~Running
  /\ calls[i].pc = "dbSources"
  /\ calls' = SetCall(i, "stateMap", calls[i].attempt, calls[i].connects)
  /\ UNCHANGED <<beatVars, svcVars, opsVars, network, options, discoveryStatus, devices, sockets, events, last>>

\* connectToService(StateMap) resolved: the listeners are set, 'connected' is
\* emitted and connectToPlayer returns; emit calls the user's listeners in the
\* same run, and what a listener throws comes out of emit, so that
\* connectToPlayer is rejected after the event
StateMapConnected(i) ==
  /\ ~Running
  /\ calls[i].pc = "stateMap"
  /\ events' = Append(events, [type |-> "connected", ci |-> calls[i].ci])
  /\ \E listenerThrows \in BOOLEAN :
       calls' = SetCall(i, IF listenerThrows THEN "rejected" ELSE "resume",
                        calls[i].attempt, calls[i].connects)
  /\ UNCHANGED <<beatVars, svcVars, opsVars, network, options, discoveryStatus, devices, sockets, last>>

\* sleep(ms): a promise that a timer resolves; the timer of the sleep(500) that
\* follows the failure of attempt `attempt` of call i
Sleep(i, attempt) == <<i, attempt>>

\* an awaited step of connectToPlayer rejected, or its emit threw: the catch
\* block of handleDevice.  sleep(500) is called and its promise is dropped, not
\* awaited.
ConnectFailed(i) ==
  /\ ~Running
  /\ calls[i].pc \in {"connect", "fileTransfer", "dbSources", "stateMap", "rejected"}
  /\ calls' = SetCall(i, "loop", calls[i].attempt + 1, calls[i].connects)
  /\ timers' = timers \cup {Sleep(i, calls[i].attempt)}
  /\ UNCHANGED <<beatVars, svcVars, disconnected, lastDownload, network, options,
                 discoveryStatus, devices, sockets, events, last>>

\* handleDevice resumes after connectToPlayer returned: the mark CONNECTED and
\* emit('ready') are inside the try, so what a 'ready' listener throws is
\* caught as a failed attempt and the loop goes on in the same run
Connected(i) ==
  /\ ~Running
  /\ calls[i].pc = "resume"
  /\ discoveryStatus' = MapSet(discoveryStatus, DeviceIdOf[calls[i].ci], "CONNECTED")
  /\ events' = Append(events, [type |-> "ready", ci |-> calls[i].ci])
  /\ \E listenerThrows \in BOOLEAN :
       IF listenerThrows
       THEN /\ calls' = SetCall(i, "loop", calls[i].attempt + 1, calls[i].connects)
            /\ timers' = timers \cup {Sleep(i, calls[i].attempt)}
       ELSE /\ calls' = SetCall(i, "returned", calls[i].attempt, calls[i].connects)
            /\ UNCHANGED timers
  /\ UNCHANGED <<beatVars, svcVars, disconnected, lastDownload, network, options,
                 devices, sockets, last>>

Next ==
  \/ \E ci \in network : HandleDevice(ci)
  \/ \E i \in 1..Len(calls) : LoopHead(i)
  \/ \E i \in 1..Len(calls) : SocketConnected(i)
  \/ \E i \in 1..Len(calls) : FileTransferConnected(i)
  \/ \E i \in 1..Len(calls) : DbSourcesDownloaded(i)
  \/ \E i \in 1..Len(calls) : StateMapConnected(i)
  \/ \E i \in 1..Len(calls) : ConnectFailed(i)
  \/ \E i \in 1..Len(calls) : Connected(i)

Spec == Init /\ [][Next]_vars

(***************************************************************************)
(* The rest of the orchestrator: the sleep timers, disconnectAll and       *)
(* downloadFile.                                                           *)
(***************************************************************************)
\* a sleep(500) timer fires (those of one call in the order they were set):
\* its promise resolves, and nothing awaits it
SleepDone(t) ==
  /\ ~Running
  /\ t \in timers
  /\ \A u \in timers : u[1] = t[1] => u[2] >= t[2]
  /\ timers' = timers \ {t}
  /\ UNCHANGED <<orchVars, beatVars, svcVars, disconnected, lastDownload>>

\* the NetworkDevices the tracked-devices table holds
Tracked(devs) == {devs[a].networkDevice : a \in DOMAIN devs}

disconnectAll_Forgetful(devs, socks, ds) ==
  [sockets |-> socks \ Tracked(devs), devices |-> <<>>, discoveryStatus |-> <<>>]

\* disconnectAll(): networkDevice.disconnect() on every tracked device
disconnectAll(devs, socks, ds) ==
  [sockets |-> socks \ Tracked(devs), devices |-> devs, discoveryStatus |-> ds]

DisconnectAll ==
  /\ ~Running
  /\ LET after == disconnectAll(devices, sockets, discoveryStatus)
     IN  /\ sockets' = after.sockets
         /\ devices' = after.devices
         /\ discoveryStatus' = after.discoveryStatus
  /\ disconnected' = TRUE
  /\ UNCHANGED <<network, options, calls, events, last, beatVars, svcVars, timers, lastDownload>>

\* the addresses downloadFile is called with: those of the network's devices
\* and one no device has
Addresses(net) == {ci.address : ci \in net} \cup {"10.0.0.9"}

downloadFile_Lenient(devs, ipAddress) ==
  IF ipAddress \in DOMAIN devs
  THEN [threw |-> FALSE, service |-> <<devs[ipAddress].fileTransferService>>]
  ELSE [threw |-> FALSE, service |-> <<>>]

\* downloadFile(ipAddress, path): the service getFile is called on, or the
\* TypeError of reading fileTransferService of undefined
downloadFile(devs, ipAddress) ==
  IF ipAddress \in DOMAIN devs
  THEN [threw |-> FALSE, service |-> <<devs[ipAddress].fileTransferService>>]
  ELSE [threw |-> TRUE, service |-> <<>>]

DownloadFile(ipAddress) ==
  /\ ~Running
  /\ LET out == downloadFile(devices, ipAddress)
     IN  lastDownload' = [called |-> TRUE, address |-> ipAddress,
                          entry |-> RegGet(devices, ipAddress),
                          threw |-> out.threw, service |-> out.service]
  /\ UNCHANGED <<orchVars, beatVars, svcVars, timers, disconnected>>

NextOps ==
  \/ Next
  \/ \E t \in timers : SleepDone(t)
  \/ DisconnectAll
  \/ \E ipAddress \in Addresses(network) : DownloadFile(ipAddress)

\* the runs of the whole orchestrator are played on a device that announces
\* itself under two tokens, or on a device next to an ignored one
OpsNetworks ==
  { {Base, TokenVariant},
    {Base, CI("10.0.0.3", 50000, "t3", "sc6000", "OfflineAnalyzer")} }

InitOps ==
  /\ BeatInit
  /\ OpsInit
  /\ SvcInit
  /\ network \in OpsNetworks
  /\ options \in [maxRetries : 0..MaxRetriesBound, downloadDbSources : BOOLEAN,
                   actingAs : {[source |-> ActingAsSource]}]
  /\ discoveryStatus = <<>>
  /\ devices = <<>>
  /\ sockets = {}
  /\ calls = <<>>
  /\ events = <<>>
  /\ last = NoCall

SpecOps == InitOps /\ [][NextOps]_vars

(***************************************************************************)
(* The orchestrator under fair scheduling: a synchronous run goes on, the  *)
(* continuation of a settled promise runs, and every connectToPlayer call  *)
(* eventually returns or throws.                                           *)
(***************************************************************************)
FairNetworks == {{Base, AddressVariant}}

\* a handleDevice call per device of the network, at most
FlowIds == 1..Cardinality(UNION FairNetworks)

InitFair == Init /\ network \in FairNetworks

\* what call i awaits inside connectToPlayer settles: the next step of
\* connectToPlayer, or the rejection handleDevice catches
ConnectToPlayerStep(i) ==
  \/ SocketConnected(i)
  \/ FileTransferConnected(i)
  \/ DbSourcesDownloaded(i)
  \/ StateMapConnected(i)
  \/ ConnectFailed(i)

Fairness ==
  \A i \in FlowIds :
    /\ WF_vars(i <= Len(calls) /\ LoopHead(i))
    /\ WF_vars(i <= Len(calls) /\ ConnectToPlayerStep(i))
    /\ WF_vars(i <= Len(calls) /\ Connected(i))

SpecFair == InitFair /\ [][Next]_vars /\ Fairness

(***************************************************************************)
(* BeatInfo (src/services/BeatInfo.ts).  A beat is a double; the model     *)
(* draws beats from the multiples of one half, held as a count of halves,  *)
(* which doubles represent and divide exactly.                             *)
(***************************************************************************)
\* most players in one BeatData message
MaxPlayers == 3
\* fewest players in one BeatData message: parseData asserts sizeLeft() > 72 on
\* a frame of 16 + 32 * playerCount bytes
MinPlayers == 2
\* options.everyNBeats ranges over -1 .. MaxEveryNBeats
MaxEveryNBeats == 2

\* beats -0.5, 0 and 1.5, in halves
BeatValues == {-1, 0, 3}

PlayerData == [beat : BeatValues]

\* BeatData messages as parseData builds them: playerCount is player.length
BeatMessages ==
  UNION { { [playerCount |-> n, player |-> p] : p \in [1..n -> PlayerData] }
          : n \in MinPlayers..MaxPlayers }

\* a JavaScript number after Math.floor: an integer, an infinity or NaN
Num(v) == [kind |-> "num", v |-> v]
Infinity(sign) == [kind |-> "inf", v |-> sign]
NaN == [kind |-> "nan", v |-> 0]

\* Math.floor(beat / res), beat in halves
FloorDiv(beat, res) ==
  IF res > 0 THEN Num(beat \div (2 * res))
  ELSE IF res < 0 THEN Num((0 - beat) \div (2 * (0 - res)))
  ELSE IF beat > 0 THEN Infinity(1)
  ELSE IF beat < 0 THEN Infinity(-1)
  ELSE NaN

\* a - b >= 1 on JavaScript numbers
DiffAtLeastOne(a, b) ==
  IF a.kind = "nan" \/ b.kind = "nan" THEN FALSE
  ELSE IF a.kind = "num" /\ b.kind = "num" THEN a.v - b.v >= 1
  ELSE IF a.kind = "inf" /\ b.kind = "inf" THEN a.v = 1 /\ b.v = -1
  ELSE IF a.kind = "inf" THEN a.v = 1
  ELSE b.v = -1

resCheck(res, prevBeat, currentBeat) ==
  \/ DiffAtLeastOne(FloorDiv(currentBeat, res), FloorDiv(prevBeat, res))
  \/ DiffAtLeastOne(FloorDiv(prevBeat, res), FloorDiv(currentBeat, res))

\* the callbacks startBeatInfo is called with
BeatCallbacks == {"cb1", "cb2"}

\* startBeatInfo(beatCB, options, socket): the callback and the options are
\* stored, whatever was stored before, and the subscription request is sent
StartBeatInfo(beatCB, n) ==
  /\ userBeatCallback' = <<beatCB>>
  /\ userBeatOptions' = <<[everyNBeats |-> n]>>
  /\ UNCHANGED <<currentBeatData, lastBeat, orchVars, opsVars, svcVars>>

\* the cached message the for loop of messageHandler compares with
Baseline(data) == IF currentBeatData = <<>> THEN data ELSE currentBeatData[1]

\* reading this._currentBeatData.player[i].beat throws a TypeError for a player
\* index the cached message does not have
LoopThrows(data) == data.playerCount > Len(Baseline(data).player)

hasUpdated(data) ==
  \E i \in 1..data.playerCount :
    resCheck(userBeatOptions[1].everyNBeats, Baseline(data).player[i].beat,
             data.player[i].beat)

\* messageHandler(p_data) with p_data and p_data.message set.  The device sends
\* beat messages in answer to the subscription request of startBeatInfo.
MessageHandler(data) ==
  /\ userBeatCallback # <<>>
  /\ LET first == currentBeatData = <<>>
         throws == LoopThrows(data)
         updated == ~throws /\ hasUpdated(data)
     IN  /\ currentBeatData' = IF first \/ updated THEN <<data>> ELSE currentBeatData
         /\ lastBeat' = [handled |-> TRUE, data |-> <<data>>, prev |-> currentBeatData,
                         everyNBeats |-> userBeatOptions[1].everyNBeats,
                         callbacks |-> (IF first THEN 1 ELSE 0)
                                       + (IF updated THEN 1 ELSE 0),
                         threw |-> throws]
  /\ UNCHANGED <<userBeatCallback, userBeatOptions, orchVars, opsVars, svcVars>>

\* messageHandler(p_data) with p_data or p_data.message not set
MessageHandlerNoData ==
  /\ userBeatCallback # <<>>
  /\ lastBeat' = [handled |-> TRUE, data |-> <<>>, prev |-> currentBeatData,
                  everyNBeats |-> userBeatOptions[1].everyNBeats,
                  callbacks |-> 0, threw |-> FALSE]
  /\ UNCHANGED <<userBeatCallback, userBeatOptions, currentBeatData, orchVars, opsVars, svcVars>>

\* the orchestrator as constructed, with no announcement delivered
OrchIdle ==
  /\ OpsInit
  /\ network = {Base}
  /\ options = [maxRetries |-> MaxRetriesBound, downloadDbSources |-> FALSE,
                actingAs |-> [source |-> ActingAsSource]]
  /\ discoveryStatus = <<>>
  /\ devices = <<>>
  /\ sockets = {}
  /\ calls = <<>>
  /\ events = <<>>
  /\ last = NoCall

BeatOnlyInit == BeatInit /\ SvcInit /\ OrchIdle

NextBeat ==
  \/ \E beatCB \in BeatCallbacks, n \in -1..MaxEveryNBeats : StartBeatInfo(beatCB, n)
  \/ \E data \in BeatMessages : MessageHandler(data)
  \/ MessageHandlerNoData

SpecBeat == BeatOnlyInit /\ [][NextBeat]_vars

(***************************************************************************)
(* BeatInfo.parseData.  A frame is a sequence of bytes.  The read cursor   *)
(* (ReadContext) is a buffer and an offset: fixed-width big-endian reads   *)
(* that advance the offset, sizeLeft and isEOF.  Doubles are written in    *)
(* halves (3 is 1.5), as in the beat messages above.                       *)
(***************************************************************************)
MaxFramePlayers == 3

RECURSIVE Pow2(_)
Pow2(n) == IF n = 0 THEN 1 ELSE 2 * Pow2(n - 1)

\* the big-endian bytes of an unsigned integer, `width` bytes wide
RECURSIVE UIntBytes(_, _)
UIntBytes(v, width) ==
  IF width = 0 THEN <<>> ELSE Append(UIntBytes(v \div 256, width - 1), v % 256)

\* the unsigned integer big-endian bytes stand for
RECURSIVE UIntOf(_)
UIntOf(bytes) ==
  IF bytes = <<>> THEN 0
  ELSE UIntOf(SubSeq(bytes, 1, Len(bytes) - 1)) * 256 + bytes[Len(bytes)]

\* the binary exponent of m >= 1: 2^e <= m < 2^(e+1)
RECURSIVE Log2(_)
Log2(m) == IF m < 2 THEN 0 ELSE 1 + Log2(m \div 2)

\* the IEEE-754 big-endian bytes of the double h/2 (|h| < 2^20): sign bit,
\* 11 bits of biased exponent, and the fraction, whose first 20 bits hold
\* every significant bit of h
Float64Bytes(h) ==
  IF h = 0 THEN <<0, 0, 0, 0, 0, 0, 0, 0>>
  ELSE LET sign == IF h < 0 THEN 1 ELSE 0
           m == IF h < 0 THEN 0 - h ELSE h
           e == Log2(m)
           biased == 1022 + e
           frac == (m - Pow2(e)) * Pow2(20 - e)
       IN  << sign * 128 + biased \div 16,
              (biased % 16) * 16 + frac \div 65536,
              (frac \div 256) % 256,
              frac % 256, 0, 0, 0, 0 >>

\* the double (in halves) that eight IEEE-754 big-endian bytes stand for
Float64Of(bytes) ==
  LET sign == bytes[1] \div 128
      biased == (bytes[1] % 128) * 16 + bytes[2] \div 16
      frac == ((bytes[2] % 16) * 256 + bytes[3]) * 256 + bytes[4]
      e == biased - 1022
      m == (Pow2(20) + frac) \div Pow2(20 - e)
  IN  IF biased = 0 THEN 0 ELSE IF sign = 1 THEN 0 - m ELSE m

\* ReadContext: a buffer and the offset of the next unread byte
NewReadContext(bytes) == [buf |-> bytes, off |-> 0]
sizeLeft(ctx) == Len(ctx.buf) - ctx.off
isEOF(ctx) == ctx.off = Len(ctx.buf)
\* the next `width` bytes, and the cursor after them
Peek(ctx, width) == SubSeq(ctx.buf, ctx.off + 1, ctx.off + width)
Skip(ctx, width) == [ctx EXCEPT !.off = ctx.off + width]
readUInt32(ctx) == UIntOf(Peek(ctx, 4))
readUInt64(ctx) == UIntOf(Peek(ctx, 8))
readFloat64(ctx) == Float64Of(Peek(ctx, 8))

\* the result of a parseData call that throws
ParseThrew == [threw |-> TRUE, id |-> 0, clock |-> 0, playerCount |-> 0,
               player |-> <<>>, eof |-> FALSE]

\* the first loop of parseData: one (beat, totalBeats, BPM) triple per player;
\* a read past the end of the buffer throws
RECURSIVE FirstPass(_, _, _)
FirstPass(ctx, playerCount, player) ==
  IF ~(Len(player) < playerCount) THEN [threw |-> FALSE, ctx |-> ctx, player |-> player]
  ELSE IF sizeLeft(ctx) < 24 THEN [threw |-> TRUE, ctx |-> ctx, player |-> player]
  ELSE FirstPass(Skip(ctx, 24), playerCount,
                 Append(player, [beat |-> readFloat64(ctx),
                                 totalBeats |-> readFloat64(Skip(ctx, 8)),
                                 BPM |-> readFloat64(Skip(ctx, 16)),
                                 samples |-> <<>>]))

\* the second loop of parseData: player[i].samples, for i from `i` on
RECURSIVE SecondPass(_, _, _)
SecondPass(ctx, player, i) ==
  IF ~(i <= Len(player)) THEN [threw |-> FALSE, ctx |-> ctx, player |-> player]
  ELSE IF sizeLeft(ctx) < 8 THEN [threw |-> TRUE, ctx |-> ctx, player |-> player]
  ELSE SecondPass(Skip(ctx, 8),
                  [player EXCEPT ![i].samples = <<readFloat64(ctx)>>], i + 1)

\* a single loop over another layout, 32 bytes per player: not what parseData does
RECURSIVE InterleavedPass(_, _, _)
InterleavedPass(ctx, playerCount, player) ==
  IF ~(Len(player) < playerCount) THEN [threw |-> FALSE, ctx |-> ctx, player |-> player]
  ELSE IF sizeLeft(ctx) < 32 THEN [threw |-> TRUE, ctx |-> ctx, player |-> player]
  ELSE InterleavedPass(Skip(ctx, 32), playerCount,
               Append(player, [beat |-> readFloat64(ctx),
                               totalBeats |-> readFloat64(Skip(ctx, 8)),
                               BPM |-> readFloat64(Skip(ctx, 16)),
                               samples |-> <<readFloat64(Skip(ctx, 24))>>]))

parseData_Interleaved(bytes) ==
  LET p_ctx == NewReadContext(bytes)
  IN  IF ~(sizeLeft(p_ctx) > 72) THEN ParseThrew
      ELSE LET id == readUInt32(p_ctx)
               clock == readUInt64(Skip(p_ctx, 4))
               playerCount == readUInt32(Skip(p_ctx, 12))
               all == InterleavedPass(Skip(p_ctx, 16), playerCount, <<>>)
           IN  IF all.threw \/ ~isEOF(all.ctx) THEN ParseThrew
               ELSE [threw |-> FALSE, id |-> id, clock |-> clock,
                     playerCount |-> playerCount, player |-> all.player,
                     eof |-> isEOF(all.ctx)]

\* parseData(p_ctx) on a cursor at the start of `bytes`: the ServiceMessage it
\* returns and whether the cursor is at EOF, or the fact that it threw
parseData(bytes) ==
  LET p_ctx == NewReadContext(bytes)
  IN  IF ~(sizeLeft(p_ctx) > 72) THEN ParseThrew
      ELSE LET id == readUInt32(p_ctx)
               clock == readUInt64(Skip(p_ctx, 4))
               playerCount == readUInt32(Skip(p_ctx, 12))
               first == FirstPass(Skip(p_ctx, 16), playerCount, <<>>)
               second == SecondPass(first.ctx, first.player, 1)
           IN  IF first.threw \/ second.threw \/ ~isEOF(second.ctx) THEN ParseThrew
               ELSE [threw |-> FALSE, id |-> id, clock |-> clock,
                     playerCount |-> playerCount, player |-> second.player,
                     eof |-> isEOF(second.ctx)]

\* the frames parseData is called on: built field by field in the layout of the
\* beat-info response, some with a byte of junk behind them
FrameIds == {0, 66051}
FrameClocks == {1, 16909060}
FramePlayers ==
  { [beat |-> 3, totalBeats |-> 256, BPM |-> 241, samples |-> 88200],
    [beat |-> -1, totalBeats |-> 0, BPM |-> 1, samples |-> 2],
    [beat |-> 8, totalBeats |-> 1024, BPM |-> 348, samples |-> 1048575] }
FrameJunk == {<<>>, <<7>>}

RECURSIVE Triples(_)
Triples(player) ==
  IF player = <<>> THEN <<>>
  ELSE Float64Bytes(Head(player).beat) \o Float64Bytes(Head(player).totalBeats)
         \o Float64Bytes(Head(player).BPM) \o Triples(Tail(player))

RECURSIVE Samples(_)
Samples(player) ==
  IF player = <<>> THEN <<>>
  ELSE Float64Bytes(Head(player).samples) \o Samples(Tail(player))

BuildFrame(id, clock, player) ==
  UIntBytes(id, 4) \o UIntBytes(clock, 8) \o UIntBytes(Len(player), 4)
    \o Triples(player) \o Samples(player)

Frames ==
  { [id |-> id, clock |-> clock, player |-> player,
     bytes |-> BuildFrame(id, clock, player) \o junk] :
      id \in FrameIds, clock \in FrameClocks, junk \in FrameJunk,
      player \in UNION {[1..n -> FramePlayers] : n \in 0..MaxFramePlayers} }

InitParse ==
  /\ BeatInit
  /\ RegInit
  /\ OrchIdle
  /\ frame \in Frames
  /\ parsed = <<>>

\* the service reads the frame: one parseData call
ParseData ==
  /\ parsed = <<>>
  /\ parsed' = <<parseData(frame.bytes)>>
  /\ UNCHANGED <<orchVars, beatVars, opsVars, regVars, frame>>

NextParse == ParseData

SpecParse == InitParse /\ [][NextParse]_vars

(***************************************************************************)
(* The Devices registry: addDevice, hasDevice and getDevice, which polls   *)
(* every 150 ms until the device is there.  A DeviceId is the dashed hex   *)
(* string of a 16-byte token.                                              *)
(***************************************************************************)
MaxAdds == 2
MaxGetCalls == 2
MaxUpdateCalls == 2

HexDigits == "0123456789abcdef"
HexDigit(n) == SubSeq(HexDigits, n + 1, n + 1)

\* Buffer.from(bytes).toString('hex')
RECURSIVE ToHex(_)
ToHex(bytes) ==
  IF bytes = <<>> THEN ""
  ELSE HexDigit(Head(bytes) \div 16) \o HexDigit(Head(bytes) % 16) \o ToHex(Tail(bytes))

\* /(\w{8})(\w{4})(\w{4})(\w{4})(\w{12})/i .exec(hex).splice(1).join('-')
DashedHex(hex) ==
  SubSeq(hex, 1, 8) \o "-" \o SubSeq(hex, 9, 12) \o "-" \o SubSeq(hex, 13, 16)
    \o "-" \o SubSeq(hex, 17, 20) \o "-" \o SubSeq(hex, 21, 32)

\* the tokens of the devices of a run
RegTokens ==
  { <<0, 1, 2, 3, 4, 5, 6, 7, 8, 9, 10, 11, 12, 13, 14, 15>>,
    <<255, 171, 18, 52, 86, 120, 154, 188, 222, 240, 0, 17, 34, 51, 68, 85>> }

\* new DeviceId(token).string, token by token
DeviceIdString == [token \in RegTokens |-> DashedHex(ToHex(token))]

\* the three forms a device id is passed in
IdForms ==
  {[type |-> "string", string |-> DeviceIdString[t], token |-> t] : t \in RegTokens}
    \cup {[type |-> "DeviceId", string |-> DeviceIdString[t], token |-> t] : t \in RegTokens}
    \cup {[type |-> "Uint8Array", string |-> "", token |-> t] : t \in RegTokens}

\* the key hasDevice and getDevice look a device id up under
KeyOf(id) ==
  IF id.type = "string" THEN id.string
  ELSE IF id.type = "DeviceId" THEN id.string
  ELSE DashedHex(ToHex(id.token))

KeyTable == [id \in IdForms |-> KeyOf(id)]

hasDevice_Always(devs, id) == TRUE

hasDevice(devs, id) == KeyTable[id] \in DOMAIN devs

\* the ConnectionInfos addDevice is called with
RegInfos == {[token |-> t, port |-> p] : t \in RegTokens, p \in {50000}}

\* addDevice(info): a new Device under the string of its DeviceId; `serial`
\* tells the Device objects made for one token apart, in the order they were
\* made
AddDevice(info) ==
  LET key == DeviceIdString[info.token]
      serial == IF key \in DOMAIN created THEN created[key] + 1 ELSE 1
  IN  /\ serial <= MaxAdds
      /\ created' = MapSet(created, key, serial)
      /\ registry' = MapSet(registry, key,
                            [deviceId |-> key, info |-> info, serial |-> serial])
      /\ UNCHANGED <<orchVars, beatVars, opsVars, parseVars, getCalls, updateCalls>>

\* a continuation of updateDeviceInfo is queued as a microtask: the timers of
\* the sleeps run only after it
AssignPending ==
  \E k \in 1..Len(updateCalls) : updateCalls[k].pc = "resolved"

\* getDevice(id) up to its first await: it returns at once when the device is
\* there, and sleeps 150 ms when it is not
GetDevice(id) ==
  /\ Len(getCalls) < MaxGetCalls
  /\ getCalls' = Append(getCalls,
        IF hasDevice(registry, id)
        THEN [id |-> id, pc |-> "returned", waited |-> FALSE,
              result |-> RegGet(registry, KeyTable[id])]
        ELSE [id |-> id, pc |-> "sleep", waited |-> TRUE, result |-> <<>>])
  /\ UNCHANGED <<orchVars, beatVars, opsVars, parseVars, registry, created,
                 updateCalls>>

\* the sleep(150) of call i is over: the loop tests hasDevice again
GetDevicePoll(i) ==
  /\ i \in 1..Len(getCalls)
  /\ getCalls[i].pc = "sleep"
  /\ ~AssignPending
  /\ IF hasDevice(registry, getCalls[i].id)
     THEN getCalls' = [getCalls EXCEPT ![i].pc = "returned",
                         ![i].result = RegGet(registry, KeyTable[getCalls[i].id])]
     ELSE UNCHANGED getCalls
  /\ UNCHANGED <<orchVars, beatVars, opsVars, parseVars, registry, created,
                 updateCalls>>

\* the ConnectionInfos updateDeviceInfo is called with: a new port, under the
\* device's own token or another one
RegUpdateInfos == {[token |-> t, port |-> p] : t \in RegTokens, p \in {50001}}

\* the device updateDeviceInfo is called for
RegUpdateTokens == {<<0, 1, 2, 3, 4, 5, 6, 7, 8, 9, 10, 11, 12, 13, 14, 15>>}

\* the updateDeviceInfo calls: the token of the DeviceId and the new info
UpdateCalls ==
  {[token |-> t, info |-> info] : t \in RegUpdateTokens, info \in RegUpdateInfos}

\* the same Device object: the Devices of one identity differ by their serial
SameDevice(a, b) == a.deviceId = b.deviceId /\ a.serial = b.serial

\* device.info = info; this._devices.set(deviceId.string, device): `device` is
\* the Device getDevice returned to this call, which need not be the one the
\* registry holds now; everyone who holds that object sees its new info
SetInfo(k) ==
  LET u == updateCalls[k]
      key == DeviceIdString[u.token]
      device == u.device[1]
      updated == [device EXCEPT !.info = u.info]
      Seen(held) == IF Len(held) = 1 /\ SameDevice(held[1], device)
                    THEN <<updated>> ELSE held
  IN  /\ registry' = MapSet(registry, key, updated)
      /\ getCalls' = [i \in 1..Len(getCalls) |->
                        [getCalls[i] EXCEPT !.result = Seen(getCalls[i].result)]]
      /\ updateCalls' = [j \in 1..Len(updateCalls) |->
                          IF j = k
                          THEN [u EXCEPT !.pc = "done", !.device = <<updated>>]
                          ELSE [updateCalls[j] EXCEPT
                                  !.device = Seen(updateCalls[j].device)]]

\* updateDeviceInfo(deviceId, info) up to its await: getDevice returns the
\* Device when it is there, and the assignment is left to a later microtask;
\* without the device the call waits in the loop of getDevice
UpdateDeviceInfo(u) ==
  LET key == DeviceIdString[u.token]
  IN  /\ Len(updateCalls) < MaxUpdateCalls
      /\ updateCalls' = Append(updateCalls,
            IF key \in DOMAIN registry
            THEN [token |-> u.token, info |-> u.info, pc |-> "resolved",
                  device |-> RegGet(registry, key)]
            ELSE [token |-> u.token, info |-> u.info, pc |-> "sleep",
                  device |-> <<>>])
      /\ UNCHANGED <<orchVars, beatVars, opsVars, parseVars, registry, created,
                     getCalls>>

\* the sleep(150) of the waiting updateDeviceInfo call k is over: the loop of
\* getDevice tests again and returns the Device the registry holds
UpdateDeviceInfoPoll(k) ==
  /\ k \in 1..Len(updateCalls)
  /\ updateCalls[k].pc = "sleep"
  /\ ~AssignPending
  /\ IF DeviceIdString[updateCalls[k].token] \in DOMAIN registry
     THEN updateCalls' = [updateCalls EXCEPT ![k].pc = "resolved",
            ![k].device = RegGet(registry, DeviceIdString[updateCalls[k].token])]
     ELSE UNCHANGED updateCalls
  /\ UNCHANGED <<orchVars, beatVars, opsVars, parseVars, registry, created,
                 getCalls>>

\* updateDeviceInfo call k goes on after its await
UpdateDeviceInfoAssign(k) ==
  /\ k \in 1..Len(updateCalls)
  /\ updateCalls[k].pc = "resolved"
  /\ SetInfo(k)
  /\ UNCHANGED <<orchVars, beatVars, opsVars, parseVars, created>>

InitReg == BeatInit /\ ParseInit /\ RegInit /\ OrchIdle

NextReg ==
  \/ \E info \in RegInfos : AddDevice(info)
  \/ \E id \in IdForms : GetDevice(id)
  \/ \E i \in 1..MaxGetCalls : GetDevicePoll(i)
  \/ \E u \in UpdateCalls : UpdateDeviceInfo(u)
  \/ \E k \in 1..MaxUpdateCalls : UpdateDeviceInfoPoll(k)
  \/ \E k \in 1..MaxUpdateCalls : UpdateDeviceInfoAssign(k)

\* every sleep(150) ends: the timer fires and the loop of getDevice goes on;
\* every queued continuation of updateDeviceInfo runs
RegFairness ==
  /\ \A i \in 1..MaxGetCalls : WF_vars(GetDevicePoll(i))
  /\ \A k \in 1..MaxUpdateCalls : WF_vars(UpdateDeviceInfoPoll(k))
  /\ \A k \in 1..MaxUpdateCalls : WF_vars(UpdateDeviceInfoAssign(k))

SpecReg == InitReg /\ [][NextReg]_vars /\ RegFairness

(***************************************************************************)
(* The claims.                                                             *)
(***************************************************************************)
\* the identity the specification names: (address, port, source, software.name)
IdentityTuple(ci) == <<ci.address, ci.port, ci.source, ci.software.name>>

StatusOf(ci) == MapGet(discoveryStatus, DeviceIdOf[ci])

\* a connectToPlayer call of handleDevice call i is in flight
Connecting(i) == calls[i].pc \in {"connect", "fileTransfer", "dbSources", "stateMap"}

\* the announcements the ignore policy names, read off the policy's wording
PolicyNames ==
  {"OfflineAnalyzer", "JM08", "SSS0",
   "SoundSwitchXYZ", "soundswitch", "ResolumeArena", "RESOLUME"}

NamedByPolicy(ci) == ci.source = ActingAsSource \/ ci.software.name \in PolicyNames

\* the positions of the events of one type emitted for one announcement
EventsAt(type, ci) ==
  {k \in 1..Len(events) : events[k].type = type /\ events[k].ci = ci}

\* C1: announcements of one identity start one connect attempt sequence: no two
\* handleDevice calls pass the guard for the same identity, a call that finds
\* the status CONNECTING does not proceed, and the only call in a connect
\* attempt for an identity is the one that marked it CONNECTING: the mark
\* stays until that call emits 'ready', and the entry stays for good.
C1_OneConnectSequence ==
  /\ \A i, j \in 1..Len(calls) :
       DeviceIdOf[calls[i].ci] = DeviceIdOf[calls[j].ci] => i = j
  /\ last.before = "CONNECTING" => ~last.proceeded
  /\ \A i \in 1..Len(calls) :
       calls[i].pc \in {"loop", "connect", "fileTransfer", "dbSources",
                        "stateMap", "rejected", "resume"}
         => /\ StatusOf(calls[i].ci) \in {"CONNECTING", "CONNECTED"}
            /\ EventsAt("ready", calls[i].ci) = {}
                 => StatusOf(calls[i].ci) = "CONNECTING"

\* the identity is CONNECTING, its first connect attempt is in flight, and a
\* second announcement of the same identity has returned at the guard
C1_Witness ==
  /\ Len(calls) = 1
  /\ calls[1].pc = "connect"
  /\ calls[1].connects = 1
  /\ IdentityTuple(last.ci) = IdentityTuple(calls[1].ci)
  /\ last.before = "CONNECTING"
  /\ ~last.proceeded

\* C2: a handleDevice call for an identity that is CONNECTED, CONNECTING or
\* FAILED, or for an announcement the ignore policy names, changes neither the
\* discovery-status map nor the tracked devices, starts no connect attempt,
\* emits no event and throws nothing.
C2_GuardedCallIsNoOp ==
  [][(/\ last' # last
      /\ \/ last'.before \in {"CONNECTED", "CONNECTING", "FAILED"}
         \/ NamedByPolicy(last'.ci))
     => UNCHANGED <<discoveryStatus, devices, sockets, calls, events>>]_vars

\* an announcement of a CONNECTED identity has returned at the guard
C2_Witness ==
  /\ last.before = "CONNECTED"
  /\ ~last.proceeded
  /\ \E i \in 1..Len(calls) :
       /\ calls[i].pc = "returned"
       /\ IdentityTuple(calls[i].ci) = IdentityTuple(last.ci)

\* C3: an announcement the ignore policy names is never passed to
\* connectToPlayer and never gets a discovery-status entry.
C3_IgnoredNeverConnected ==
  \A ci \in network :
    NamedByPolicy(ci) =>
      /\ \A i \in 1..Len(calls) : calls[i].ci # ci
      /\ DeviceIdOf[ci] \notin DOMAIN discoveryStatus
      /\ last.ci = ci => ~last.proceeded

\* a lower-case SoundSwitch announcement has returned at the guard while another
\* device is connected
C3_Witness ==
  /\ last.ci.software.name = "soundswitch"
  /\ ~last.proceeded
  /\ last.before = "undefined"
  /\ \E i \in 1..Len(calls) : calls[i].pc = "returned"

\* C4: a connectToPlayer call in flight is the attempt-th one of its handleDevice
\* call, with 1 <= attempt <= maxRetries - 1; a call that entered the loop and
\* threw made exactly maxRetries - 1 connectToPlayer calls and left the identity
\* FAILED; a call that succeeded made at most maxRetries - 1.
C4_RetryLoopBodies ==
  \A i \in 1..Len(calls) :
    /\ Connecting(i) =>
         /\ calls[i].connects = calls[i].attempt
         /\ 1 <= calls[i].attempt
         /\ calls[i].attempt <= options.maxRetries - 1
    /\ calls[i].pc = "threw" =>
         /\ StatusOf(calls[i].ci) = "FAILED"
         /\ calls[i].connects >= 1 => calls[i].connects = options.maxRetries - 1
    /\ calls[i].pc \in {"resume", "returned"} =>
         calls[i].connects <= options.maxRetries - 1

\* with maxRetries = 3 a call has thrown after two failed connect attempts
C4_Witness ==
  /\ options.maxRetries = 3
  /\ \E i \in 1..Len(calls) :
       /\ calls[i].pc = "threw"
       /\ calls[i].connects = 2
       /\ StatusOf(calls[i].ci) = "FAILED"

\* C5: with maxRetries = 3, a handleDevice call that throws has made 3 connect
\* attempts.
C5_ThreeAttempts ==
  options.maxRetries = 3 =>
    \A i \in 1..Len(calls) : calls[i].pc = "threw" => calls[i].connects = 3

\* C6: a handleDevice call that returned left the identity CONNECTED, after one
\* 'connected' and then one 'ready' event for its announcement, and its last
\* connectToPlayer call was the one that succeeded; 'ready' is only emitted for
\* CONNECTED identities; once 'connected' is emitted the call only goes on to
\* 'ready' and returns (no further attempt, no error), so a call that is
\* anywhere else has emitted neither event.
C6_ReadyAfterConnected ==
  /\ \A i \in 1..Len(calls) :
       /\ calls[i].pc = "returned" =>
            /\ StatusOf(calls[i].ci) = "CONNECTED"
            /\ Cardinality(EventsAt("connected", calls[i].ci)) = 1
            /\ Cardinality(EventsAt("ready", calls[i].ci)) = 1
            /\ \A c \in EventsAt("connected", calls[i].ci) :
                 \A r \in EventsAt("ready", calls[i].ci) : c < r
            /\ calls[i].connects = calls[i].attempt
       /\ calls[i].pc = "resume" =>
            /\ Cardinality(EventsAt("connected", calls[i].ci)) = 1
            /\ EventsAt("ready", calls[i].ci) = {}
       /\ calls[i].pc \notin {"resume", "returned"} =>
            /\ EventsAt("connected", calls[i].ci) = {}
            /\ EventsAt("ready", calls[i].ci) = {}
  /\ \A k \in 1..Len(events) :
       events[k].type = "ready" => StatusOf(events[k].ci) = "CONNECTED"

\* C7 as claimed: a handleDevice call that finds its identity FAILED proceeds to
\* mark it CONNECTING and to connect again.
C7_RestartAfterFailed == last.before = "FAILED" => last.proceeded

\* C7 as amended: a handleDevice call that finds its identity FAILED returns at
\* the guard; the identity of a call that threw stays FAILED, and that call is
\* the only one that ever connected to it.
C7_FailedIsFinal ==
  /\ last.before = "FAILED" => ~last.proceeded
  /\ \A i \in 1..Len(calls) :
       calls[i].pc = "threw" =>
         /\ StatusOf(calls[i].ci) = "FAILED"
         /\ \A j \in 1..Len(calls) :
              IdentityTuple(calls[j].ci) = IdentityTuple(calls[i].ci) => j = i

\* a call threw after a failed attempt, and a later announcement of its identity
\* has returned at the guard
C7_Witness ==
  /\ last.before = "FAILED"
  /\ ~last.proceeded
  /\ \E i \in 1..Len(calls) :
       /\ calls[i].pc = "threw"
       /\ calls[i].connects >= 1
       /\ IdentityTuple(calls[i].ci) = IdentityTuple(last.ci)
       /\ StatusOf(last.ci) = "FAILED"

\* C8: every entry of the discovery-status map is CONNECTING, CONNECTED or
\* FAILED, and a step changes the status of an identity only from unseen to
\* CONNECTING, from CONNECTING to CONNECTED or from CONNECTING to FAILED.
C8_StatusTransitions ==
  [][\A id \in DOMAIN discoveryStatus \cup DOMAIN discoveryStatus' :
       /\ MapGet(discoveryStatus', id) \in {"CONNECTING", "CONNECTED", "FAILED"}
       /\ \/ MapGet(discoveryStatus', id) = MapGet(discoveryStatus, id)
          \/ <<MapGet(discoveryStatus, id), MapGet(discoveryStatus', id)>> \in
               { <<"undefined", "CONNECTING">>,
                 <<"CONNECTING", "CONNECTED">>,
                 <<"CONNECTING", "FAILED">> }]_vars

\* C9: no two handleDevice calls pass the guard with the same (address, port,
\* source, software.name), whatever their tokens; an announcement the policy
\* does not name returns at the guard only if a call with its tuple passed
\* before; every call that passed has a discovery-status entry of its own.
C9_IdentityIsTuple ==
  /\ \A i, j \in 1..Len(calls) :
       IdentityTuple(calls[i].ci) = IdentityTuple(calls[j].ci) => i = j
  /\ (last.before # "none" /\ ~last.proceeded /\ ~NamedByPolicy(last.ci)) =>
       \E i \in 1..Len(calls) : IdentityTuple(calls[i].ci) = IdentityTuple(last.ci)
  /\ Cardinality(DOMAIN discoveryStatus) = Len(calls)

\* two announcements with one token and two ports each have a connect attempt
\* in flight, and the announcement that differs from the first in its token
\* alone has returned at the guard
C9_Witness ==
  /\ Len(calls) = 2
  /\ calls[1].ci.token = calls[2].ci.token
  /\ calls[1].ci.port # calls[2].ci.port
  /\ Connecting(1) /\ Connecting(2)
  /\ last.ci.token # calls[1].ci.token
  /\ IdentityTuple(last.ci) = IdentityTuple(calls[1].ci)
  /\ ~last.proceeded

\* floor(beat / n) for n > 0, beat in halves
Bucket(beat, n) == beat \div (2 * n)

\* some player of both messages is in another bucket of n beats
Crossed(prev, data, n) ==
  \E i \in 1..Len(prev.player) :
    /\ i <= Len(data.player)
    /\ Bucket(prev.player[i].beat, n) # Bucket(data.player[i].beat, n)

\* C10: with everyNBeats > 0 the first message is forwarded once and cached; a
\* later message is forwarded once and cached if some player is in another
\* bucket than in the cached message, and is otherwise dropped with the cache
\* unchanged.
C10_ForwardIffCrossed ==
  (/\ lastBeat.handled
   /\ lastBeat.data # <<>>
   /\ lastBeat.everyNBeats > 0) =>
    IF lastBeat.prev = <<>>
         \/ Crossed(lastBeat.prev[1], lastBeat.data[1], lastBeat.everyNBeats)
    THEN lastBeat.callbacks = 1 /\ currentBeatData = lastBeat.data
    ELSE lastBeat.callbacks = 0 /\ currentBeatData = lastBeat.prev


(***************************************************************************)
(* parseData                                                               *)
(***************************************************************************)
\* the frame is exactly the layout built from its values, nothing behind it
WellFormed == frame.bytes = BuildFrame(frame.id, frame.clock, frame.player)

\* the call returned the values the frame was built from, player by player,
\* with the cursor at EOF
RoundTrip ==
  /\ ~parsed[1].threw
  /\ parsed[1].id = frame.id
  /\ parsed[1].clock = frame.clock
  /\ parsed[1].playerCount = Len(frame.player)
  /\ Len(parsed[1].player) = Len(frame.player)
  /\ \A i \in 1..Len(frame.player) :
        /\ parsed[1].player[i].beat = frame.player[i].beat
        /\ parsed[1].player[i].totalBeats = frame.player[i].totalBeats
        /\ parsed[1].player[i].BPM = frame.player[i].BPM
        /\ parsed[1].player[i].samples = <<frame.player[i].samples>>
  /\ parsed[1].eof

\* C11 as stated: parseData accepts a well-formed frame of every player count
\* N >= 0 and returns exactly the values it was built from, cursor at EOF.
C11_RoundTripEveryCount ==
  (parsed # <<>> /\ WellFormed) => RoundTrip

\* C11, amended: parseData accepts a well-formed frame of N >= 2 players (the
\* frames longer than 72 bytes) and returns exactly the values it was built
\* from, player i getting the i-th triple and the i-th samples value, with the
\* cursor at EOF; a well-formed frame of 0 or 1 players is rejected.
C11_RoundTripFromTwoPlayers ==
  (parsed # <<>> /\ WellFormed) =>
     IF Len(frame.player) >= 2 THEN RoundTrip ELSE parsed[1].threw

\* a frame of three different players was decoded
C11_Witness ==
  /\ parsed # <<>>
  /\ WellFormed
  /\ Len(frame.player) = 3
  /\ frame.player[1] # frame.player[2]
  /\ frame.player[2] # frame.player[3]
  /\ RoundTrip

(***************************************************************************)
(* getDevice                                                               *)
(***************************************************************************)
\* call i has returned a Device addDevice made for the identity asked for, and
\* the registry holds that identity
ReturnedDevice(i) ==
  /\ getCalls[i].pc = "returned"
  /\ KeyTable[getCalls[i].id] \in DOMAIN registry
  /\ Len(getCalls[i].result) = 1
  /\ getCalls[i].result[1].deviceId = DeviceIdString[getCalls[i].id.token]
  /\ getCalls[i].result[1].serial \in 1..created[KeyTable[getCalls[i].id]]

\* C12: a getDevice call never returns while the identity is absent from the
\* registry (a returned call holds a Device of that identity), and a call that
\* is waiting when the device has been added eventually returns that Device,
\* by itself.
C12_WaitThenReturn ==
  /\ [](\A i \in 1..Len(getCalls) :
          getCalls[i].pc = "returned" => ReturnedDevice(i))
  /\ \A i \in 1..MaxGetCalls :
        (i <= Len(getCalls) /\ getCalls[i].pc = "sleep"
           /\ KeyTable[getCalls[i].id] \in DOMAIN registry)
          ~> (i <= Len(getCalls) /\ ReturnedDevice(i))

\* a call that began before addDevice, given the raw token, has returned the Device
C12_Witness ==
  \E i \in 1..Len(getCalls) :
    /\ getCalls[i].waited
    /\ getCalls[i].id.type = "Uint8Array"
    /\ ReturnedDevice(i)

(***************************************************************************)
(* downloadFile                                                            *)
(***************************************************************************)
\* C13: downloadFile(address, path) fails and calls no file-transfer service
\* when no device is tracked under the address; when one is, it calls getFile
\* on the file-transfer service of that entry and does not fail by itself.
C13_DownloadFile ==
  lastDownload.called =>
    IF lastDownload.entry = <<>>
    THEN lastDownload.threw /\ lastDownload.service = <<>>
    ELSE /\ ~lastDownload.threw
         /\ lastDownload.service = <<lastDownload.entry[1].fileTransferService>>

\* downloadFile failed for an address no device is tracked under, while a
\* device is tracked under another address
C13_Witness ==
  /\ lastDownload.called
  /\ lastDownload.entry = <<>>
  /\ lastDownload.threw
  /\ devices # <<>>

(***************************************************************************)
(* Independence of the connection flows                                    *)
(***************************************************************************)
\* the step that carries call j forward when what it awaits succeeds
Advances(j) ==
  CASE calls[j].pc = "connect" -> ENABLED SocketConnected(j)
    [] calls[j].pc = "fileTransfer" -> ENABLED FileTransferConnected(j)
    [] calls[j].pc = "dbSources" -> ENABLED DbSourcesDownloaded(j)
    [] calls[j].pc = "stateMap" -> ENABLED StateMapConnected(j)
    [] calls[j].pc = "resume" ->
         ENABLED (Connected(j)
                    /\ MapGet(discoveryStatus', DeviceIdOf[calls[j].ci]) = "CONNECTED")
    [] OTHER -> TRUE

\* handleDevice(ci) can be called now, and the call marks the identity CONNECTING
Accepted(ci) ==
  ENABLED (HandleDevice(ci)
             /\ MapGet(discoveryStatus', DeviceIdOf[ci]) = "CONNECTING"
             /\ Len(calls') = Len(calls) + 1)

\* C14: while a handleDevice call for identity A is suspended in a connect
\* attempt (first or repeated, at any of its awaits), a call for another,
\* non-ignored identity B without a status is accepted and marks B CONNECTING,
\* and a call for B that is under way is carried on by the success of what it
\* awaits, up to CONNECTED.
C14_IndependentFlows ==
  \A i \in 1..Len(calls) :
    (Connecting(i) /\ \A k \in 1..Len(calls) : calls[k].pc # "loop") =>
      /\ \A ci \in network :
           ( /\ DeviceIdOf[ci] # DeviceIdOf[calls[i].ci]
             /\ ~IgnoredOf[ci]
             /\ StatusOf(ci) = "undefined" ) => Accepted(ci)
      /\ \A j \in 1..Len(calls) : j # i => Advances(j)

\* A keeps failing (its second attempt is under way) while B goes on to CONNECTED
C14_Witness ==
  /\ Len(calls) = 2
  /\ calls[1].attempt >= 2
  /\ Connecting(1)
  /\ calls[2].pc = "returned"
  /\ StatusOf(calls[2].ci) = "CONNECTED"
  /\ StatusOf(calls[1].ci) = "CONNECTING"

(***************************************************************************)
(* Retry backoff                                                           *)
(***************************************************************************)
\* C15: after a connect attempt of a handleDevice call fails, the next connect
\* attempt of that call does not begin until the sleep started for that
\* failure has completed: while attempt n is under way, no sleep of a failure
\* before n is pending.
C15_BackoffBeforeRetry ==
  \A i \in 1..Len(calls) :
    calls[i].pc \in {"connect", "fileTransfer", "dbSources", "stateMap", "resume"} =>
      \A t \in timers : ~(t[1] = i /\ t[2] < calls[i].attempt)

(***************************************************************************)
(* everyNBeats <= 0                                                        *)
(***************************************************************************)
\* C16: with everyNBeats <= 0 the crossing test is guarded: startBeatInfo
\* rejects the option, or else messageHandler forwards every message it is
\* given to the callback.
C16_NonPositiveGuarded ==
  (/\ lastBeat.everyNBeats <= 0
   /\ lastBeat.handled
   /\ lastBeat.data # <<>>
   /\ ~lastBeat.threw) => lastBeat.callbacks >= 1

(***************************************************************************)
(* Termination of handleDevice                                             *)
(***************************************************************************)
\* the handleDevice call for the identity of ci has ended and left the
\* identity CONNECTED or FAILED
Settled(ci) ==
  /\ StatusOf(ci) \in {"CONNECTED", "FAILED"}
  /\ \A i \in 1..Len(calls) :
        DeviceIdOf[calls[i].ci] = DeviceIdOf[ci] => calls[i].pc \in {"returned", "threw"}

\* C17: if every connectToPlayer call eventually returns or throws, every
\* identity marked CONNECTING eventually becomes CONNECTED or FAILED and the
\* handleDevice call that marked it terminates.
C17_NoConnectingForever ==
  \A ci \in UNION FairNetworks :
    (StatusOf(ci) = "CONNECTING") ~> Settled(ci)

\* a call that failed at least once has ended with the identity FAILED, while
\* the other identity is CONNECTED
C17_Witness ==
  /\ Len(calls) = 2
  /\ calls[1].pc = "threw"
  /\ calls[1].attempt >= 2
  /\ Settled(calls[1].ci)
  /\ calls[2].pc = "returned"
  /\ Settled(calls[2].ci)

(***************************************************************************)
(* disconnectAll                                                           *)
(***************************************************************************)
\* the connectToPlayer call that made NetworkDevice nd is still under way
InFlight(nd) == calls[nd[1]].attempt = nd[2] /\ Connecting(nd[1])

\* C18: every NetworkDevice whose connect() succeeded in a connectToPlayer
\* call that is over, and that has not been disconnected, is held in the
\* tracked-devices table; so once disconnectAll has run with no connect
\* attempt under way, no NetworkDevice of the orchestrator is connected.
C18_ConnectedAreTracked ==
  /\ \A nd \in sockets : InFlight(nd) \/ nd \in Tracked(devices)
  /\ (disconnected /\ \A i \in 1..Len(calls) : ~Connecting(i)) => sockets = {}

(***************************************************************************)
(* FAILED without an attempt                                               *)
(***************************************************************************)
\* C19: an identity is marked FAILED, and handleDevice throws, only after at
\* least one connect attempt to that identity was made and failed, whatever
\* maxRetries is.
C19_FailedAfterAnAttempt ==
  \A i \in 1..Len(calls) :
    (calls[i].pc = "threw" \/ StatusOf(calls[i].ci) = "FAILED") =>
      calls[i].connects >= 1

(***************************************************************************)
(* What disconnectAll leaves alone                                         *)
(***************************************************************************)
\* C20: disconnectAll changes neither the discovery-status map nor the
\* tracked-devices table, so an identity that was CONNECTED is CONNECTED
\* after it, and an announcement of that identity after disconnectAll is a
\* no-op: no status changes, no call is started and no socket is opened.
C20_DisconnectAllKeepsStatus ==
  [][ /\ DisconnectAll =>
           /\ discoveryStatus' = discoveryStatus
           /\ devices' = devices
           /\ \A ci \in network :
                 StatusOf(ci) = "CONNECTED" =>
                   MapGet(discoveryStatus', DeviceIdOf[ci]) = "CONNECTED"
      /\ \A ci \in network :
           (disconnected /\ StatusOf(ci) = "CONNECTED" /\ HandleDevice(ci)) =>
             UNCHANGED <<discoveryStatus, devices, sockets, calls, events>> ]_vars

\* after disconnectAll closed the socket of a CONNECTED device, the device was
\* announced again and the call returned at the guard: still CONNECTED, no
\* socket open
C20_Witness ==
  /\ disconnected
  /\ last.disconnected
  /\ last.before = "CONNECTED"
  /\ ~last.proceeded
  /\ StatusOf(last.ci) = "CONNECTED"
  /\ devices # <<>>
  /\ sockets = {}
====
